---- MODULE Spec2Model ----
(***************************************************************************)
(* dexy: a pool of thread_count workers drains a shared queue of           *)
(* directories, hashes the files of each directory and merges the hashes   *)
(* into one shared map from digest to files (src/main.rs).                 *)
(*                                                                         *)
(* Paths and file contents are sequences of one-character strings, so     *)
(* that joining a path, canonicalizing it and searching it for "/." are    *)
(* computed as the code computes them.                                     *)
(***************************************************************************)
EXTENDS Integers, Sequences, FiniteSets, Bags, TLC

\* Largest thread_count explored (args.thread_count ranges over 1..MaxWorkers).
MaxWorkers == 2

(***************************************************************************)
(* The file system the scans run on                                        *)
(***************************************************************************)
Sep == <<"/">>

\* PathBuf::join of a directory path and an entry name.
Join(dir, name) == dir \o Sep \o name

\* str::contains
Contains(s, pat) ==
    \E i \in 1..(Len(s) - Len(pat) + 1) : SubSeq(s, i, i + Len(pat) - 1) = pat

Hello == <<"h", "e", "l", "l", "o">>
World == <<"w", "o", "r", "l", "d">>
Empty == <<>>

\* format!("{:x}", Sha256(content)) for the contents the file system holds.
Sha256Hex(content) ==
    CASE content = Hello -> "2cf24dba5fb0a30e26e83b2ac5b9e29e1b161e5c1fa7425e73043362938b9824"
      [] content = World -> "486ea46224d1bb4fb680f34f7c9ad96a8f24ec88be73ea8e5a6c65260e9cb8a7"
      [] content = Empty -> "e3b0c44298fc1c149afbf4c8996fb92427ae41e4649b934ca495991b7852b855"

\* One entry returned by read_dir: a directory, or a file with what
\* symlink_metadata, File::open and the read by io::copy do on it.
Dir(name) ==
    [name |-> name, is_dir |-> TRUE, meta_ok |-> TRUE, open_ok |-> TRUE,
     read_ok |-> TRUE, content |-> Empty]
File(name, content) ==
    [name |-> name, is_dir |-> FALSE, meta_ok |-> TRUE, open_ok |-> TRUE,
     read_ok |-> TRUE, content |-> content]
\* A symbolic link whose target is gone: lstat succeeds, open fails.
BrokenLink(name) ==
    [name |-> name, is_dir |-> FALSE, meta_ok |-> TRUE, open_ok |-> FALSE,
     read_ok |-> FALSE, content |-> Empty]
\* A file that opens and then fails while it is read.
Unreadable(name, content) ==
    [name |-> name, is_dir |-> FALSE, meta_ok |-> TRUE, open_ok |-> TRUE,
     read_ok |-> FALSE, content |-> content]
\* An entry deleted between read_dir and symlink_metadata.
Vanished(name) ==
    [name |-> name, is_dir |-> FALSE, meta_ok |-> FALSE, open_ok |-> FALSE,
     read_ok |-> FALSE, content |-> Empty]

\* The tree below a directory `root`, each directory's entries in read_dir order:
\*   root/j -> (gone)     root/a.t = "hello"   root/.x = "world"
\*   root/d/b.t = "hello" root/d/c.t = "world"
\*   root/e/f.t = ""      root/e/l -> (gone)   root/e/u.t (read fails)
\*   root/e/v (vanished)  root/e/k.t = "world"
\*   root/.g/h.t = "hello"
Tree(root) ==
    (root :> << BrokenLink(<<"j">>), File(<<"a", ".", "t">>, Hello), Dir(<<"d">>),
                File(<<".", "x">>, World),
                Dir(<<"e">>), Dir(<<".", "g">>) >>)
    @@ (Join(root, <<"d">>) :> << File(<<"b", ".", "t">>, Hello), File(<<"c", ".", "t">>, World) >>)
    @@ (Join(root, <<"e">>) :> << File(<<"f", ".", "t">>, Empty), BrokenLink(<<"l">>),
                                  Unreadable(<<"u", ".", "t">>, Hello), Vanished(<<"v">>),
                                  File(<<"k", ".", "t">>, World) >>)
    @@ (Join(root, <<".", "g">>) :> << File(<<"h", ".", "t">>, Hello) >>)

\* The process's working directory, a hidden directory.
Cwd == <<"/", ".", "h">>
RootR == <<"/", "r">>
RootH == Join(Cwd, <<"r">>)
RootZ == <<"/", "z">>
RootS == <<"/", "s">>

\* The tree at /s: a.t = "hello", d/b.t = "hello", d/c.t = "world".
TreeS ==
    (RootS :> << File(<<"a", ".", "t">>, Hello), Dir(<<"d">>) >>)
    @@ (Join(RootS, <<"d">>) :> << File(<<"b", ".", "t">>, Hello), File(<<"c", ".", "t">>, World) >>)

\* Every directory of the file system with its entries: the tree at /r, the
\* same tree at /.h/r, the tree at /s, and the chain /z/y/x: /z holds only /z/y,
\* /z/y only /z/y/x, and /z/y/x is empty.
FS ==
    Tree(RootR) @@ Tree(RootH) @@ TreeS
    @@ (RootZ :> << Dir(<<"y">>) >>) @@ (Join(RootZ, <<"y">>) :> << Dir(<<"x">>) >>)
    @@ (Join(Join(RootZ, <<"y">>), <<"x">>) :> << >>)

\* Path::canonicalize: a relative path is resolved against the working
\* directory; a path that names no directory is an error.
Canonicalize(p) ==
    LET abs == IF Head(p) = "/" THEN p ELSE Join(Cwd, p)
    IN  IF abs \in DOMAIN FS THEN [ok |-> TRUE, path |-> abs]
                             ELSE [ok |-> FALSE, path |-> abs]

(***************************************************************************)
(* The command line                                                        *)
(***************************************************************************)
\* The start_directory lists explored: /r, r (relative to the working
\* directory), /s, /z, /z/y/x, and /r followed by a path that does not exist.
StartChoices ==
    { <<RootR>>, << <<"r">> >>, <<RootS>>, <<RootZ>>,
      <<Join(Join(RootZ, <<"y">>), <<"x">>)>>,
      <<RootR, <<"/", "n">> >> }

\* The directories read_dir may be refused on (permission denied).
DeniedChoices == { {}, {Join(RootR, <<"e">>), Join(RootH, <<"e">>)} }

\* The parsed command lines explored.  The relative start directory is scanned
\* without --include-hidden only: with the flag the hidden-path test is off and
\* the scan of r is the scan of /r under another prefix.
ArgsChoices ==
    {a \in [start_directory : StartChoices, thread_count : 1..MaxWorkers,
            ignore_empty : BOOLEAN, include_hidden : BOOLEAN] :
        Head(a.start_directory[1]) # "/" => ~a.include_hidden}

(***************************************************************************)
(* One directory's listing, as the worker's entry loop computes it         *)
(***************************************************************************)
\* The per-directory map insert of one hashed file.
Record(result, scanned_file) ==
    IF scanned_file.hash \in DOMAIN result
    THEN [result EXCEPT ![scanned_file.hash] = Append(@, scanned_file)]
    ELSE result @@ (scanned_file.hash :> <<scanned_file>>)

\* The hidden-path test applied to an entry's full path.
SkippedHidden(a, entry_path) == ~a.include_hidden /\ Contains(entry_path, <<"/", ".">>)

\* Classify leaving the entry loop at the first entry whose metadata, open or
\* read fails.
RECURSIVE ClassifyStopsOnError(_, _, _, _)
ClassifyStopsOnError(a, path, es, acc) ==
    IF es = << >> THEN acc
    ELSE LET s == Head(es)
             sp == Join(path, s.name)
             rest == Tail(es)
         IN  IF SkippedHidden(a, sp) THEN ClassifyStopsOnError(a, path, rest, acc)
             ELSE IF s.is_dir
                  THEN ClassifyStopsOnError(a, path, rest, [acc EXCEPT !.folders = Append(@, sp)])
             ELSE IF ~s.meta_ok THEN acc
             ELSE IF a.ignore_empty /\ Len(s.content) = 0
                  THEN ClassifyStopsOnError(a, path, rest, acc)
             ELSE IF ~s.open_ok THEN acc
             ELSE IF ~s.read_ok THEN acc
             ELSE LET scanned_file ==
                          [hash |-> Sha256Hex(s.content), path |-> sp, attributes |-> "None"]
                  IN  ClassifyStopsOnError(a, path, rest,
                                           [acc EXCEPT !.result = Record(@, scanned_file),
                                                       !.hashed = @ \cup {scanned_file}])

\* The entry loop over the entries `es` of directory `path`: acc carries
\* folders, result and the files hashed so far.
RECURSIVE Classify(_, _, _, _)
Classify(a, path, es, acc) ==
    IF es = << >> THEN acc
    ELSE LET s == Head(es)
             sp == Join(path, s.name)
             rest == Tail(es)
         IN  IF SkippedHidden(a, sp) THEN Classify(a, path, rest, acc)
             ELSE IF s.is_dir
                  THEN Classify(a, path, rest, [acc EXCEPT !.folders = Append(@, sp)])
             ELSE IF ~s.meta_ok THEN Classify(a, path, rest, acc)
             ELSE IF a.ignore_empty /\ Len(s.content) = 0 THEN Classify(a, path, rest, acc)
             ELSE IF ~s.open_ok THEN Classify(a, path, rest, acc)
             ELSE IF ~s.read_ok THEN Classify(a, path, rest, acc)
             ELSE LET scanned_file ==
                          [hash |-> Sha256Hex(s.content), path |-> sp, attributes |-> "None"]
                  IN  Classify(a, path, rest,
                               [acc EXCEPT !.result = Record(@, scanned_file),
                                           !.hashed = @ \cup {scanned_file}])

NoResult == [h \in {} |-> << >>]

ListDir(a, path) ==
    Classify(a, path, FS[path], [folders |-> << >>, result |-> NoResult, hashed |-> {}])

\* HashMap::extend: every (key, value) pair of `result` is inserted.
Extend(map, result) ==
    [h \in DOMAIN map \cup DOMAIN result |-> IF h \in DOMAIN result THEN result[h] ELSE map[h]]

RECURSIVE BagOfSeq(_)
BagOfSeq(s) == IF s = << >> THEN EmptyBag ELSE SetToBag({Head(s)}) (+) BagOfSeq(Tail(s))

(***************************************************************************)
(* State                                                                   *)
(***************************************************************************)
VARIABLES
    args,           \* the parsed command line
    denied,         \* directories read_dir fails on
    mainpc,         \* where main() is
    spawned,        \* number of workers main() has spawned
    output,         \* what main() wrote to <out>/<name>.json
    queue,          \* dir_queue
    num_waiting,    \* the shared idle counter
    global_result,  \* the shared map digest -> files
    pb_position,    \* main progress bar: directories processed
    pb_length,      \* main progress bar: directories known
    pb_finished,    \* main progress bar: finish() called
    pc,             \* per worker: where it is
    waiting,        \* per worker: its `waiting` flag
    path,           \* per worker: the popped directory (<< >>: none)
    folders,        \* per worker: subdirectories found in `path`
    result,         \* per worker: files hashed in `path`, by digest
    guards,         \* the lock guards alive between two steps
    pushed,         \* history: bag of the paths put on the queue
    popped,         \* history: bag of the paths pop_front returned
    hashed,         \* history: every ScannedFile a worker built
    early_exit      \* history: a worker left its loop while another held a directory

cfgvars == <<args, denied>>
mainvars == <<mainpc, spawned, output>>
sharedvars == <<queue, num_waiting, global_result>>
pbvars == <<pb_position, pb_length, pb_finished>>
localvars == <<waiting, path, folders, result>>
histvars == <<pushed, popped, hashed>>
vars == <<cfgvars, mainvars, sharedvars, pbvars, pc, localvars, guards, histvars, early_exit>>

N == args.thread_count
Workers == 0..(N - 1)
WorkerIds == 0..(MaxWorkers - 1)

Init ==
    /\ args \in ArgsChoices
    /\ denied \in DeniedChoices
    /\ mainpc = "seed"
    /\ spawned = 0
    /\ output = [written |-> FALSE, data |-> NoResult]
    /\ queue = << >>
    /\ num_waiting = 0
    /\ global_result = NoResult
    /\ pb_position = 0
    /\ pb_length = 1
    /\ pb_finished = FALSE
    /\ pc = [w \in Workers |-> "unspawned"]
    /\ waiting = [w \in Workers |-> FALSE]
    /\ path = [w \in Workers |-> << >>]
    /\ folders = [w \in Workers |-> << >>]
    /\ result = [w \in Workers |-> NoResult]
    /\ pushed = EmptyBag
    /\ popped = EmptyBag
    /\ hashed = {}
    /\ guards = {}
    /\ early_exit = FALSE

(***************************************************************************)
(* main()                                                                  *)
(***************************************************************************)
\* The start directories canonicalized in order, up to the first failure.
RECURSIVE CanonPrefix(_)
CanonPrefix(dirs) ==
    IF dirs = << >> \/ ~Canonicalize(Head(dirs)).ok THEN << >>
    ELSE <<Canonicalize(Head(dirs)).path>> \o CanonPrefix(Tail(dirs))

\* Seed leaving out the start directories that cannot be canonicalized
\* (filter_map in place of expect) and going on.
SeedSkipsUnresolved ==
    /\ mainpc = "seed"
    /\ LET ok == SelectSeq(args.start_directory, LAMBDA p : Canonicalize(p).ok)
           dirs == [i \in 1..Len(ok) |-> Canonicalize(ok[i]).path]
       IN  /\ queue' = queue \o dirs
           /\ pushed' = pushed (+) BagOfSeq(dirs)
           /\ mainpc' = "spawn"
    /\ UNCHANGED <<cfgvars, guards, early_exit,
                   spawned, output, num_waiting, global_result, pbvars, pc,
                   localvars, popped, hashed>>

\* queue.extend(start_directory.map(canonicalize.expect)): a start directory
\* that cannot be canonicalized panics main() out of the extend.
Seed ==
    /\ mainpc = "seed"
    /\ LET dirs == CanonPrefix(args.start_directory)
       IN  /\ queue' = queue \o dirs
           /\ pushed' = pushed (+) BagOfSeq(dirs)
           /\ mainpc' = IF Len(dirs) = Len(args.start_directory) THEN "spawn" ELSE "panicked"
    /\ UNCHANGED <<cfgvars, guards, early_exit,
                   spawned, output, num_waiting, global_result, pbvars, pc,
                   localvars, popped, hashed>>

\* One turn of the spawn loop: worker `spawned` starts with waiting = false.
SpawnWorker ==
    /\ mainpc = "spawn"
    /\ spawned < N
    /\ pc' = [pc EXCEPT ![spawned] = "check"]
    /\ spawned' = spawned + 1
    /\ UNCHANGED <<cfgvars, guards, early_exit,
                   mainpc, output, sharedvars, pbvars, localvars, histvars>>

\* The spawn loop ends; main() goes on to wait for the workers.
SpawnDone ==
    /\ mainpc = "spawn"
    /\ spawned = N
    /\ mainpc' = "join"
    /\ UNCHANGED <<cfgvars, guards, early_exit,
                   spawned, output, sharedvars, pbvars, pc, localvars, histvars>>

\* JoinWorkers without join_all: main() goes on once the main bar is finished.
JoinWorkersBarOnly ==
    /\ mainpc = "join"
    /\ pb_finished
    /\ mainpc' = "write"
    /\ UNCHANGED <<cfgvars, guards, early_exit,
                   spawned, output, sharedvars, pbvars, pc, localvars, histvars>>

\* progressbar.join() returns once every bar is finished, join_all once every
\* worker has returned.
JoinWorkers ==
    /\ mainpc = "join"
    /\ pb_finished
    /\ \A w \in Workers : pc[w] = "terminated"
    /\ mainpc' = "write"
    /\ UNCHANGED <<cfgvars, guards, early_exit,
                   spawned, output, sharedvars, pbvars, pc, localvars, histvars>>

\* The result map is read and written out.
WriteOutput ==
    /\ mainpc = "write"
    /\ output' = [written |-> TRUE, data |-> global_result]
    /\ mainpc' = "exit"
    /\ UNCHANGED <<cfgvars, guards, early_exit,
                   spawned, sharedvars, pbvars, pc, localvars, histvars>>

(***************************************************************************)
(* worker()                                                                *)
(***************************************************************************)
\* Worker w exists (w < thread_count) and is at step l of its code.
At(w, l) == w \in Workers /\ pc[w] = l

\* Worker v holds a popped directory whose listing, push or merge is not done.
Holding(v) == pc[v] \in {"clear", "list", "push", "merge"}

\* The three tokio RwLocks: dir_queue, global_result, main_pb.  A guard is
\* what write().await or read().await returns; the lock is held until the
\* guard is dropped.  A guard that is a temporary of one statement is taken
\* and dropped within the step of that statement.
Guard(l, w, m) == [lock |-> l, worker |-> w, mode |-> m]

\* write().await returns: no guard on the lock is alive.
CanWrite(l) == \A g \in guards : g.lock # l

\* read().await returns: no write guard on the lock is alive.
CanRead(l) == \A g \in guards : g.lock = l => g.mode = "read"

\* LoopCheck counting the checking worker itself as idle when it is not marked.
LoopCheckCountsSelf(w) ==
    /\ At(w, "check")
    /\ pc' = [pc EXCEPT ![w] = IF num_waiting + (IF waiting[w] THEN 0 ELSE 1) # N
                                THEN "pop" ELSE "closing"]
    /\ early_exit' = (early_exit \/ (pc'[w] = "closing" /\ \E v \in Workers : Holding(v)))
    /\ UNCHANGED <<cfgvars, guards, mainvars, sharedvars, pbvars, localvars, histvars>>

\* The loop condition: num_waiting.load() != thread_count.
LoopCheck(w) ==
    /\ At(w, "check")
    /\ pc' = [pc EXCEPT ![w] = IF num_waiting # N THEN "pop" ELSE "closing"]
    /\ early_exit' = (early_exit \/ (num_waiting = N /\ \E v \in Workers : Holding(v)))
    /\ UNCHANGED <<cfgvars, guards, mainvars, sharedvars, pbvars, localvars, histvars>>

\* PopFront reading the head of the queue without removing it.
PopFrontPeek(w) ==
    /\ At(w, "pop")
    /\ CanWrite("queue")
    /\ IF queue # << >>
       THEN /\ path' = [path EXCEPT ![w] = Head(queue)]
            /\ popped' = popped (+) SetToBag({Head(queue)})
            /\ pc' = [pc EXCEPT ![w] = "clear"]
            /\ UNCHANGED queue
       ELSE /\ pc' = [pc EXCEPT ![w] = "idle"]
            /\ UNCHANGED <<path, queue, popped>>
    /\ UNCHANGED <<cfgvars, guards, early_exit,
                   mainvars, num_waiting, global_result, pbvars, waiting, folders,
                   result, pushed, hashed>>

\* PopFront binding the write guard to a local that lives on after the pop.
PopFrontKeepsGuard(w) ==
    /\ At(w, "pop")
    /\ CanWrite("queue")
    /\ guards' = guards \cup {Guard("queue", w, "write")}
    /\ IF queue # << >>
       THEN /\ path' = [path EXCEPT ![w] = Head(queue)]
            /\ queue' = Tail(queue)
            /\ popped' = popped (+) SetToBag({Head(queue)})
            /\ pc' = [pc EXCEPT ![w] = "clear"]
       ELSE /\ pc' = [pc EXCEPT ![w] = "idle"]
            /\ UNCHANGED <<path, queue, popped>>
    /\ UNCHANGED <<cfgvars, early_exit, mainvars, num_waiting, global_result, pbvars, waiting,
                   folders, result, pushed, hashed>>

\* dir_queue.write().await.pop_front()
PopFront(w) ==
    /\ At(w, "pop")
    /\ CanWrite("queue")
    /\ IF queue # << >>
       THEN /\ path' = [path EXCEPT ![w] = Head(queue)]
            /\ queue' = Tail(queue)
            /\ popped' = popped (+) SetToBag({Head(queue)})
            /\ pc' = [pc EXCEPT ![w] = "clear"]
       ELSE /\ pc' = [pc EXCEPT ![w] = "idle"]
            /\ UNCHANGED <<path, queue, popped>>
    /\ UNCHANGED <<cfgvars, guards, early_exit,
                   mainvars, num_waiting, global_result, pbvars, waiting, folders,
                   result, pushed, hashed>>

\* ClearIdle resetting the flag without the fetch_sub.
ClearIdleKeepsCount(w) ==
    /\ At(w, "clear")
    /\ waiting' = [waiting EXCEPT ![w] = FALSE]
    /\ pc' = [pc EXCEPT ![w] = "list"]
    /\ UNCHANGED <<cfgvars, guards, early_exit,
                   mainvars, sharedvars, pbvars, path, folders, result, histvars>>

\* if waiting { num_waiting.fetch_sub(1); waiting = false }
ClearIdle(w) ==
    /\ At(w, "clear")
    /\ IF waiting[w]
       THEN /\ num_waiting' = num_waiting - 1
            /\ waiting' = [waiting EXCEPT ![w] = FALSE]
       ELSE UNCHANGED <<num_waiting, waiting>>
    /\ pc' = [pc EXCEPT ![w] = "list"]
    /\ UNCHANGED <<cfgvars, guards, early_exit,
                   mainvars, queue, global_result, pbvars, path, folders, result,
                   histvars>>

\* read_dir and the entry loop; a directory that cannot be opened is
\* reported and the loop continues with the next iteration.
ReadDir(w) ==
    /\ At(w, "list")
    /\ IF path[w] \in denied \/ path[w] \notin DOMAIN FS
       THEN /\ pc' = [pc EXCEPT ![w] = "check"]
            /\ path' = [path EXCEPT ![w] = << >>]
            /\ UNCHANGED <<folders, result, hashed>>
       ELSE LET l == ListDir(args, path[w])
            IN  /\ folders' = [folders EXCEPT ![w] = l.folders]
                /\ result' = [result EXCEPT ![w] = l.result]
                /\ hashed' = hashed \cup l.hashed
                /\ pc' = [pc EXCEPT ![w] = "push"]
                /\ UNCHANGED path
    /\ UNCHANGED <<cfgvars, guards, early_exit,
                   mainvars, sharedvars, pbvars, waiting, pushed, popped>>

\* if !folders.is_empty() { dir_queue.write().await.extend(folders) }
PushFolders(w) ==
    /\ At(w, "push")
    /\ folders[w] # << >> => CanWrite("queue")
    /\ queue' = queue \o folders[w]
    /\ pushed' = pushed (+) BagOfSeq(folders[w])
    /\ folders' = [folders EXCEPT ![w] = << >>]
    /\ pc' = [pc EXCEPT ![w] = "merge"]
    /\ UNCHANGED <<cfgvars, guards, early_exit,
                   mainvars, num_waiting, global_result, pbvars, waiting, path,
                   result, popped, hashed>>

\* if !result.is_empty() { global_result.write().await.extend(result) }
Merge(w) ==
    /\ At(w, "merge")
    /\ result[w] # NoResult => CanWrite("result")
    /\ global_result' = Extend(global_result, result[w])
    /\ result' = [result EXCEPT ![w] = NoResult]
    /\ pc' = [pc EXCEPT ![w] = "progress"]
    /\ UNCHANGED <<cfgvars, guards, early_exit,
                   mainvars, queue, num_waiting, pbvars, waiting, path, folders,
                   histvars>>

\* Progress taking the queue's write lock before main_pb's and keeping both
\* guards to the end of the iteration.
ProgressUnderQueueLock(w) ==
    /\ At(w, "progress")
    /\ CanWrite("queue") /\ CanWrite("main_pb")
    /\ guards' = guards \cup {Guard("queue", w, "write"), Guard("main_pb", w, "write")}
    /\ pb_position' = pb_position + 1
    /\ pc' = [pc EXCEPT ![w] = "setlen"]
    /\ UNCHANGED <<cfgvars, early_exit, mainvars, sharedvars, pb_length, pb_finished,
                   localvars, histvars>>

\* let pb = main_pb.write().await; pb.inc(1): the guard pb lives to the end
\* of the iteration.
Progress(w) ==
    /\ At(w, "progress")
    /\ CanWrite("main_pb")
    /\ guards' = guards \cup {Guard("main_pb", w, "write")}
    /\ pb_position' = pb_position + 1
    /\ pc' = [pc EXCEPT ![w] = "setlen"]
    /\ UNCHANGED <<cfgvars, early_exit, mainvars, sharedvars, pb_length, pb_finished,
                   localvars, histvars>>

\* pb.set_length(dir_queue.read().await.len() + pb.position()); the iteration
\* ends and pb is dropped.
SetLength(w) ==
    /\ At(w, "setlen")
    /\ CanRead("queue")
    /\ pb_length' = Len(queue) + pb_position
    /\ guards' = guards \ {Guard("main_pb", w, "write")}
    /\ path' = [path EXCEPT ![w] = << >>]
    /\ pc' = [pc EXCEPT ![w] = "check"]
    /\ UNCHANGED <<cfgvars, early_exit, mainvars, sharedvars, pb_position, pb_finished,
                   waiting, folders, result, histvars>>

\* MarkIdle setting the flag without the fetch_add.
MarkIdleNoIncrement(w) ==
    /\ At(w, "idle")
    /\ waiting' = [waiting EXCEPT ![w] = TRUE]
    /\ pc' = [pc EXCEPT ![w] = "check"]
    /\ UNCHANGED <<cfgvars, guards, early_exit,
                   mainvars, sharedvars, pbvars, path, folders, result, histvars>>

\* MarkIdle incrementing on every empty poll, without the `!waiting` test.
MarkIdleEveryPoll(w) ==
    /\ At(w, "idle")
    /\ num_waiting' = num_waiting + 1
    /\ waiting' = [waiting EXCEPT ![w] = TRUE]
    /\ pc' = [pc EXCEPT ![w] = "check"]
    /\ UNCHANGED <<cfgvars, guards, early_exit,
                   mainvars, queue, global_result, pbvars, path, folders, result,
                   histvars>>

\* if !waiting { num_waiting.fetch_add(1); waiting = true }; sleep(100 ms)
MarkIdle(w) ==
    /\ At(w, "idle")
    /\ IF ~waiting[w]
       THEN /\ num_waiting' = num_waiting + 1
            /\ waiting' = [waiting EXCEPT ![w] = TRUE]
       ELSE UNCHANGED <<num_waiting, waiting>>
    /\ pc' = [pc EXCEPT ![w] = "check"]
    /\ UNCHANGED <<cfgvars, guards, early_exit,
                   mainvars, queue, global_result, pbvars, path, folders, result,
                   histvars>>

\* After the loop: the worker's bar is finished, worker 0 finishes the main bar.
Close(w) ==
    /\ At(w, "closing")
    /\ w = 0 => CanWrite("main_pb")
    /\ pb_finished' = (pb_finished \/ w = 0)
    /\ pc' = [pc EXCEPT ![w] = "terminated"]
    /\ UNCHANGED <<cfgvars, guards, early_exit,
                   mainvars, sharedvars, pb_position, pb_length, localvars,
                   histvars>>

WorkerStep(w) ==
    \/ LoopCheck(w)
    \/ PopFront(w)
    \/ ClearIdle(w)
    \/ ReadDir(w)
    \/ PushFolders(w)
    \/ Merge(w)
    \/ Progress(w)
    \/ SetLength(w)
    \/ MarkIdle(w)
    \/ Close(w)

MainStep ==
    \/ Seed
    \/ SpawnWorker
    \/ SpawnDone
    \/ JoinWorkers
    \/ WriteOutput

Next ==
    \/ MainStep
    \/ \E w \in WorkerIds : WorkerStep(w)

Spec == Init /\ [][Next]_vars

\* The scans whose progress is checked: the start directory exists and is
\* given as an absolute path, empty files are hashed, hidden entries are left
\* out.
LiveInit ==
    /\ Init
    /\ \A i \in DOMAIN args.start_directory :
          Head(args.start_directory[i]) = "/" /\ Canonicalize(args.start_directory[i]).ok
    /\ ~args.ignore_empty
    /\ ~args.include_hidden

\* The runtime keeps running main() and every spawned worker: a step that
\* stays possible is eventually taken.
FairSpec ==
    /\ LiveInit /\ [][Next]_vars
    /\ WF_vars(MainStep)
    /\ \A w \in WorkerIds : WF_vars(WorkerStep(w))

\* The scan as one worker performs it, the queue drained front to back.
RECURSIVE ScanFrom(_, _, _, _)
ScanFrom(a, den, q, map) ==
    IF q = << >> THEN map
    ELSE IF Head(q) \in den \/ Head(q) \notin DOMAIN FS THEN ScanFrom(a, den, Tail(q), map)
    ELSE LET l == ListDir(a, Head(q))
         IN  ScanFrom(a, den, Tail(q) \o l.folders, Extend(map, l.result))

\* The result map of a scan of the same tree with the same flags and one worker.
SingleWorkerResult == ScanFrom(args, denied, CanonPrefix(args.start_directory), NoResult)

(***************************************************************************)
(* Properties                                                              *)
(***************************************************************************)
Range(f) == {f[x] : x \in DOMAIN f}

\* Every worker has left its loop and returned.
ScanComplete == \A w \in Workers : pc[w] = "terminated"

\* The files of the shared map, whatever digest they are stored under.
FilesIn(map) == UNION {Range(map[h]) : h \in DOMAIN map}

\* How often the file at path p occurs in the map.
Occurrences(map, p) ==
    Cardinality({hi \in UNION {{h} \X (DOMAIN map[h]) : h \in DOMAIN map} :
                    map[hi[1]][hi[2]].path = p})

\* C1: a worker leaves its loop only when the queue is empty and no worker
\* holds a popped directory it has not finished processing.
C1_ExitOnlyWhenQuiescent ==
    \A w \in Workers :
        pc[w] \in {"closing", "terminated"} =>
            queue = << >> /\ \A v \in Workers : ~Holding(v)

\* C2: once all workers have terminated, every file a worker read
\* successfully (a reachable file the flags do not exclude) occurs in the
\* result map exactly once.
C2_EveryFileExactlyOnce ==
    ScanComplete => \A f \in hashed : Occurrences(global_result, f.path) = 1

IsPrefix(s, t) == Len(s) <= Len(t) /\ SubSeq(t, 1, Len(s)) = s

\* C3: a step never removes a digest from the shared map and only appends
\* to the list stored under it: the list before is a prefix of the list after.
C3_MergeOnlyAppends ==
    [][\A h \in DOMAIN global_result :
          /\ h \in DOMAIN global_result'
          /\ IsPrefix(global_result[h], global_result'[h])]_vars

\* C4: when the scan is complete every hashed file is in the list stored
\* under its digest, and the scan of /s with default flags yields exactly
\* the digest of "hello" with /s/a.t and /s/d/b.t and the digest of "world"
\* with /s/d/c.t.
C4_SameContentSameList ==
    ScanComplete =>
        /\ \A f \in hashed :
              f.hash \in DOMAIN global_result /\ f \in Range(global_result[f.hash])
        /\ (args.start_directory = <<RootS>> /\ ~args.include_hidden /\ ~args.ignore_empty) =>
              /\ DOMAIN global_result = {Sha256Hex(Hello), Sha256Hex(World)}
              /\ {f.path : f \in Range(global_result[Sha256Hex(Hello)])} =
                     {Join(RootS, <<"a", ".", "t">>),
                      Join(Join(RootS, <<"d">>), <<"b", ".", "t">>)}
              /\ {f.path : f \in Range(global_result[Sha256Hex(World)])} =
                     {Join(Join(RootS, <<"d">>), <<"c", ".", "t">>)}

\* C6: every path put on the queue is either still queued or was returned by
\* exactly one pop (pushed = popped + queued, as bags), a popped directory is
\* held by the worker that popped it and by no other, and once the scan is
\* complete every pushed path has been popped.
C6_EachEntryPoppedOnce ==
    /\ pushed = popped (+) BagOfSeq(queue)
    /\ \A w \in Workers : path[w] # << >> => BagIn(path[w], popped)
    /\ \A v, w \in Workers :
          (v # w /\ path[v] # << >> /\ CopiesIn(path[v], pushed) = 1) => path[v] # path[w]
    /\ ScanComplete => pushed = popped

\* Two workers hold popped directories while a pushed one is still queued.
C6_Witness ==
    \E v, w \in Workers :
        /\ v # w /\ Holding(v) /\ Holding(w)
        /\ queue # << >>
        /\ BagCardinality(popped) >= 3

\* C10: num_waiting is the number of workers whose idle mark is set; it
\* stays within 0..N; a worker that lists, pushes, merges or reports
\* progress is not marked; a terminated worker stays marked.
C10_CounterCountsIdleWorkers ==
    /\ num_waiting = Cardinality({w \in Workers : waiting[w]})
    /\ num_waiting >= 0 /\ num_waiting <= N
    /\ \A w \in Workers :
          /\ pc[w] \in {"list", "push", "merge", "progress", "setlen"} => ~waiting[w]
          /\ pc[w] \in {"closing", "terminated"} => waiting[w]

\* A marked worker polls the empty queue again while another worker is
\* working on a directory.
C10_Witness ==
    \E v, w \in Workers :
        /\ pc[v] = "idle" /\ waiting[v]
        /\ pc[w] \in {"list", "push", "merge"}
        /\ num_waiting = 1

\* C5: under fair scheduling a scan that has started ends: every worker
\* leaves its loop and returns, and main() then writes the result map out.
C5_ScanTerminates ==
    (mainpc = "spawn") ~> (ScanComplete /\ mainpc = "exit" /\ output.written)

\* A scan by the largest pool is over and written; it went through at least
\* three directories.
C5_Witness ==
    /\ mainpc = "exit" /\ ScanComplete /\ output.written
    /\ N = MaxWorkers /\ pb_position >= 3

\* The paths stored under each digest, as sets.
PathSets(map) == [h \in DOMAIN map |-> {f.path : f \in Range(map[h])}]

\* C7: the result map of a complete scan, read as digest -> set of paths,
\* depends on the tree and the flags alone: it is the map the scan of the
\* same tree with the same flags and one worker produces.
C7_ResultIsFunctionOfTree ==
    ScanComplete => PathSets(global_result) = PathSets(SingleWorkerResult)

\* C8: a worker whose popped directory cannot be opened leaves the queue,
\* the result map and the idle counter as they are and goes back to its loop
\* check, not marked idle; and a completed scan that met such a directory has
\* an empty queue and holds every file hashed in the other directories.
C8_UnreadableDirectorySkipped ==
    /\ [][\A w \in Workers :
            (pc[w] = "list" /\ path[w] \in denied /\ pc'[w] # "list") =>
                /\ queue' = queue /\ global_result' = global_result
                /\ num_waiting' = num_waiting /\ ~waiting'[w]
                /\ pc'[w] = "check"]_vars
    /\ []((ScanComplete /\ \E p \in denied : BagIn(p, popped)) =>
            /\ queue = << >>
            /\ \A f \in hashed : f \in FilesIn(global_result))

\* The entry name begins with the hidden marker.
HiddenName(name) == Head(name) = "."

\* The entry is a file that the flags keep and that can be read.
Hashable(e) ==
    /\ ~e.is_dir /\ e.meta_ok /\ e.open_ok /\ e.read_ok
    /\ ~(args.ignore_empty /\ Len(e.content) = 0)

\* C9: after a directory is listed, an entry of it was skipped as hidden
\* exactly when include_hidden is off and its own name begins with ".": the
\* other directories are in folders, the other readable files in result, the
\* skipped ones in neither.
C9_HiddenByOwnName ==
    \A w \in Workers :
        pc[w] = "push" =>
            \A e \in Range(FS[path[w]]) :
                LET ep == Join(path[w], e.name)
                    skipped == ~args.include_hidden /\ HiddenName(e.name)
                IN  /\ e.is_dir => (ep \in Range(folders[w]) <=> ~skipped)
                    /\ Hashable(e) =>
                          ((\E f \in FilesIn(result[w]) : f.path = ep) <=> ~skipped)
                    /\ skipped => /\ ep \notin Range(folders[w])
                                  /\ \A f \in FilesIn(result[w]) : f.path # ep

\* C11: a worker alternates between working and idle and then terminates.  It
\* is marked idle only after a pop that found the queue empty and unmarked only
\* after a pop that returned a directory; it leaves its loop only at a loop
\* check that reads num_waiting = thread_count while it is itself marked idle;
\* once terminated it stays terminated, its own state never changes, and every
\* later change of the queue, the result map or the counter is another
\* worker's step.
C11_WorkerLifecycle ==
    [][\A w \in Workers :
          /\ (pc[w] # "closing" /\ pc'[w] = "closing")
                => (pc[w] = "check" /\ num_waiting = N /\ waiting[w])
          /\ (pc[w] # "terminated" /\ pc'[w] = "terminated") => pc[w] = "closing"
          /\ (~waiting[w] /\ waiting'[w]) => (pc[w] = "idle" /\ path[w] = << >>)
          /\ (waiting[w] /\ ~waiting'[w]) => (pc[w] = "clear" /\ path[w] # << >>)
          /\ pc[w] \in {"closing", "terminated"} =>
                /\ pc'[w] \in {"closing", "terminated"}
                /\ waiting'[w] = waiting[w] /\ path'[w] = << >>
                /\ folders'[w] = << >> /\ result'[w] = NoResult
                /\ <<sharedvars, pushed, popped, hashed>>' # <<sharedvars, pushed, popped, hashed>>
                      => \E v \in Workers \ {w} : pc'[v] # pc[v]
      ]_vars

\* A worker has terminated after directories were processed while another
\* worker is still in its loop.
C11_Witness ==
    \E w, v \in Workers :
        /\ pc[w] = "terminated" /\ pc[v] \in {"check", "pop", "idle"}
        /\ pb_position > 1

\* The ScannedFiles built so far from the files of directory p.
HashedIn(p) == hashed \cap ListDir(args, p).hashed

\* C12: within one iteration the subdirectories found in the popped directory
\* are on the shared queue before any file of that directory is hashed: once a
\* file of the directory a worker holds has been hashed, every subdirectory of
\* that directory has been pushed.
C12_PushBeforeHash ==
    \A w \in Workers :
        (path[w] \in DOMAIN FS /\ path[w] \notin denied /\ HashedIn(path[w]) # {})
            => \A i \in DOMAIN ListDir(args, path[w]).folders :
                  BagIn(ListDir(args, path[w]).folders[i], pushed)

\* The entry is a file whose metadata fetch, open or read fails.
FailingEntry(e) ==
    /\ ~e.is_dir
    /\ ~e.meta_ok \/ ~e.open_ok \/ ~e.read_ok
    /\ e.meta_ok => ~(args.ignore_empty /\ Len(e.content) = 0)

\* The directory holds an entry that fails and that the hidden test lets through.
HasFailingEntry(p) ==
    \E e \in Range(FS[p]) : FailingEntry(e) /\ ~SkippedHidden(args, Join(p, e.name))

\* C13: an entry whose metadata fetch, open or read fails is the only entry
\* lost.  When the entry loop of a directory with such an entry ends, every
\* other entry the hidden test lets through has been handled (each directory
\* is in folders, each readable file is hashed and in result, the failing
\* entries are in neither); the worker then pushes exactly these folders,
\* merges exactly these files into the shared map and returns to its loop
\* check without leaving the loop.
C13_EntryFailureSkipsOnlyEntry ==
    [][\A w \in Workers :
          LET p == path[w]
          IN  (p \in DOMAIN FS /\ p \notin denied /\ HasFailingEntry(p)) =>
              /\ (pc[w] = "list" /\ pc'[w] # "list") =>
                    /\ pc'[w] = "push"
                    /\ \A e \in Range(FS[p]) :
                          LET ep == Join(p, e.name)
                          IN  ~SkippedHidden(args, ep) =>
                                /\ e.is_dir => ep \in Range(folders'[w])
                                /\ Hashable(e) =>
                                      \E f \in FilesIn(result'[w]) \cap hashed' :
                                          f.path = ep /\ f.hash = Sha256Hex(e.content)
                                /\ FailingEntry(e) =>
                                      /\ ep \notin Range(folders'[w])
                                      /\ \A f \in FilesIn(result'[w]) : f.path # ep
              /\ (pc[w] = "push" /\ pc'[w] # "push") =>
                    /\ pc'[w] = "merge"
                    /\ queue' = queue \o folders[w]
              /\ (pc[w] = "merge" /\ pc'[w] # "merge") =>
                    /\ pc'[w] = "progress"
                    /\ \A h \in DOMAIN result[w] :
                          h \in DOMAIN global_result' /\ global_result'[h] = result[w][h]
              /\ (pc[w] = "progress" /\ pc'[w] # "progress") => pc'[w] = "setlen"
              /\ (pc[w] = "setlen" /\ pc'[w] # "setlen") => pc'[w] = "check"
      ]_vars

\* A worker has listed a directory whose first entry failed: the file and the
\* subdirectories after it are in result and folders.
C13_Witness ==
    \E w \in Workers :
        /\ pc[w] = "push" /\ path[w] \in DOMAIN FS
        /\ FailingEntry(FS[path[w]][1])
        /\ folders[w] # << >> /\ result[w] # NoResult

\* The locks worker w holds a guard on.
LocksHeldBy(w) == {g.lock : g \in {h \in guards : h.worker = w}}

\* C14: the queue lock and the result lock are taken and released within the
\* pop, push or merge step: no guard on either is alive between two steps, so
\* none is held by a worker that is about to list and hash a directory, that
\* sleeps after an empty pop, or that is anywhere else in its code.
C14_NoLockAcrossSuspension ==
    /\ \A g \in guards : g.lock \notin {"queue", "result"}
    /\ \A w \in Workers :
          pc[w] \in {"clear", "list", "idle", "check"}
              => LocksHeldBy(w) \cap {"queue", "result"} = {}

\* One worker is about to list the directory it popped, another has slept
\* after an empty pop, and a merge into the result map has taken place.
C14_Witness ==
    \E w, v \in Workers :
        /\ pc[w] = "list" /\ path[w] # << >>
        /\ pc[v] = "check" /\ waiting[v]
        /\ global_result # NoResult

\* main() has put every start directory, canonicalized, on the queue.
Seeded ==
    /\ mainpc \notin {"seed", "panicked"}
    /\ \A i \in DOMAIN args.start_directory :
          /\ Canonicalize(args.start_directory[i]).ok
          /\ BagIn(Canonicalize(args.start_directory[i]).path, pushed)

\* The order of main() as a state predicate: a worker exists and a pop has
\* happened only after the seeding, main() reads the map only when every
\* worker has returned, and what it wrote is the map as it is now.
DriverOrder ==
    /\ ((\E w \in Workers : pc[w] # "unspawned") \/ popped # EmptyBag) => Seeded
    /\ mainpc \in {"write", "exit"} => ScanComplete
    /\ output.written => (mainpc = "exit" /\ output.data = global_result)

\* C15: the steps of main() are ordered.  The queue has received every
\* canonicalized start directory before a worker is spawned and so before the
\* first pop; main() reads the result map and writes the output only after
\* all thread_count workers have terminated; from the read on no step changes
\* the result map, so the output is the final map.
C15_DriverOrder ==
    [][/\ DriverOrder /\ DriverOrder'
       /\ (popped = EmptyBag /\ popped' # EmptyBag) =>
             \A i \in DOMAIN args.start_directory :
                 \E k \in DOMAIN queue : queue[k] = Canonicalize(args.start_directory[i]).path
       /\ mainpc \in {"write", "exit"} => global_result' = global_result
      ]_vars

\* Two workers have scanned a tree, both have returned and main() has written
\* a map that holds files.
C15_Witness ==
    /\ N > 1 /\ ScanComplete
    /\ mainpc = "exit" /\ output.written /\ output.data # NoResult

\* Some start directory cannot be canonicalized.
UnresolvedStart ==
    \E i \in DOMAIN args.start_directory : ~Canonicalize(args.start_directory[i]).ok

\* C16: when a start directory cannot be canonicalized, main() panics in the
\* seeding and the scan never starts: no worker is spawned, nothing is popped,
\* listed or hashed, the result map stays empty and no output is written.
C16_AbortOnBadStart ==
    (UnresolvedStart /\ mainpc # "seed") =>
        /\ mainpc = "panicked"
        /\ spawned = 0 /\ \A w \in Workers : pc[w] = "unspawned"
        /\ popped = EmptyBag /\ hashed = {}
        /\ global_result = NoResult /\ ~output.written

\* main() has panicked on the second start directory after the first one was
\* put on the queue.
C16_Witness ==
    /\ mainpc = "panicked" /\ UnresolvedStart
    /\ queue # << >>

\* C17: quiescence is stable: once num_waiting equals thread_count no step
\* changes it, so no worker decrements it afterwards.
C17_QuiescenceStable == [][num_waiting = N => num_waiting' = N]_vars

\* read_dir succeeds on p.
Readable(p) == p \in DOMAIN FS /\ p \notin denied

\* C18: when all thread_count workers have terminated, the queue is empty,
\* num_waiting equals thread_count, and every directory ever put on the queue
\* has been popped and processed to the end: no worker still holds a
\* directory, folders or results; each readable popped directory has had its
\* subdirectories pushed, its files hashed and stored under their digests'
\* keys, and has been counted by the progress bar.  This covers the runs in
\* which a worker left its loop while another still held a directory.
C18_AllDoneAtExit ==
    ScanComplete =>
        /\ queue = << >>
        /\ num_waiting = N
        /\ pushed = popped
        /\ guards = {}
        /\ \A w \in Workers : path[w] = << >> /\ folders[w] = << >> /\ result[w] = NoResult
        /\ \A p \in BagToSet(popped) :
              Readable(p) =>
                  /\ \A i \in DOMAIN ListDir(args, p).folders :
                        BagIn(ListDir(args, p).folders[i], popped)
                  /\ ListDir(args, p).hashed \subseteq hashed
                  /\ \A f \in ListDir(args, p).hashed : f.hash \in DOMAIN global_result
        /\ pb_position = Cardinality({p \in BagToSet(popped) : Readable(p)})

\* All workers have terminated in a run in which one of them left its loop
\* while another held a popped directory, and several directories were
\* scanned.
C18_Witness ==
    /\ ScanComplete /\ early_exit
    /\ pb_position > 1

\* Worker w is at a statement that requests a lock: the queue lock (pop, push,
\* set_length), the result lock (merge) or the main bar's lock (progress,
\* finish).
Requesting(w) ==
    w \in Workers /\ pc[w] \in {"pop", "push", "merge", "progress", "setlen", "closing"}

\* C19: the workers never deadlock on the queue lock, the result lock and the
\* main bar's lock.  The only guard a worker holds while it requests another
\* lock is the main bar's write guard, held while it requests the queue's read
\* lock; no queue or result guard is held at any request.  Under fair
\* scheduling every worker at a lock request gets past it: from the push it
\* passes the merge, the progress step and set_length and is back at its loop
\* check, from the pop it has its answer, from finish() it has terminated.
C19_NoLockDeadlock ==
    /\ [](\A g \in guards :
             /\ g.lock = "main_pb" /\ g.mode = "write"
             /\ pc[g.worker] = "setlen")
    /\ \A w \in WorkerIds : []<>~Requesting(w)

\* One worker holds the main bar's guard and requests the queue's read lock
\* while another requests the main bar's lock.
C19_Witness ==
    \E w, v \in Workers :
        /\ pc[v] = "setlen" /\ Guard("main_pb", v, "write") \in guards
        /\ pc[w] = "progress"

====
